---- MODULE Spec2Model ----
(***************************************************************************)
(* lensy: a directory summariser (lensy.py).  The model follows one run    *)
(* of main(): argument resolution, the four git queries of                 *)
(* collect_git_info, collect_file_overview, the os.walk loop of            *)
(* collect_stats, format_summary and the final print.                      *)
(***************************************************************************)
EXTENDS Integers, Sequences, FiniteSets, TLC

VARIABLES
    pc,            \* position of the run inside main()/format_summary()
    argv,          \* the positional path argument
    rootKind,      \* what the resolved path is: "missing", "file", "dir", "unreadable"
    tree,          \* the filesystem below root: a sequence of nodes
    root,          \* main(): root = Path(args.path).expanduser().resolve()
    gitCalls,      \* the git queries spawned so far, in order
    branch,        \* collect_git_info locals
    latest_commit,
    status_output,
    git_info,      \* the Optional[GitInfo] returned by collect_git_info
    file_listing,  \* the list returned by collect_file_overview
    stack,         \* os.walk: directories still to be visited
    visited,       \* os.walk: directories yielded as `current`
    files,         \* collect_stats counters
    dirs,
    stats,         \* the dict returned by collect_stats
    lines,         \* format_summary: the list of lines
    stdout,        \* text printed to standard output ("" while nothing is printed)
    stderr,        \* text printed to standard error
    raised,        \* the function an unhandled exception escaped from, or "none"
    exit           \* exit status, -1 while the run is in progress

vars == <<pc, argv, rootKind, tree, root, gitCalls, branch, latest_commit,
          status_output, git_info, file_listing, stack, visited, files, dirs,
          stats, lines, stdout, stderr, raised, exit>>

gitVars == <<gitCalls, branch, latest_commit, status_output, git_info>>
walkVars == <<stack, visited, files, dirs, stats>>
outVars == <<lines, stdout, stderr, exit>>
envVars == <<argv, rootKind, tree, root>>

----------------------------------------------------------------------------
(* Bounds *)

MaxOut == 2        \* longest raw stdout of a git query, in characters
MaxNodes == 3      \* most filesystem nodes below root in the collect_stats runs
MaxEntries == 3    \* most direct children of root in the collect_file_overview runs

----------------------------------------------------------------------------
(* Strings *)

\* Optional[str] / Optional[GitInfo]
None == [some |-> FALSE]
Some(v) == [some |-> TRUE, val |-> v]

IsSpace(c) == c \in {" ", "\n", "\t", "\r"}

RECURSIVE LStrip(_)
LStrip(s) ==
    IF Len(s) > 0 /\ IsSpace(SubSeq(s, 1, 1))
    THEN LStrip(SubSeq(s, 2, Len(s)))
    ELSE s

RECURSIVE RStrip(_)
RStrip(s) ==
    IF Len(s) > 0 /\ IsSpace(SubSeq(s, Len(s), Len(s)))
    THEN RStrip(SubSeq(s, 1, Len(s) - 1))
    ELSE s

\* str.strip()
Strip(s) == RStrip(LStrip(s))

StartsWith(s, p) == Len(s) >= Len(p) /\ SubSeq(s, 1, Len(p)) = p
EndsWith(s, p) == Len(s) >= Len(p) /\ SubSeq(s, Len(s) - Len(p) + 1, Len(s)) = p

\* the lines joined with spaces
RECURSIVE Join_Spaces(_)
Join_Spaces(seq) ==
    IF seq = <<>> THEN ""
    ELSE IF Len(seq) = 1 THEN seq[1]
    ELSE seq[1] \o " " \o Join_Spaces(Tail(seq))

\* "\n".join(seq)
RECURSIVE Join(_)
Join(seq) ==
    IF seq = <<>> THEN ""
    ELSE IF Len(seq) = 1 THEN seq[1]
    ELSE seq[1] \o "\n" \o Join(Tail(seq))

\* str.split("\n"): the lines of a text
SplitLines(s) ==
    LET breaks == {0, Len(s) + 1} \cup {i \in 1..Len(s) : SubSeq(s, i, i) = "\n"}
        nth(k) == CHOOSE x \in breaks : Cardinality({y \in breaks : y < x}) = k - 1
    IN  [k \in 1..(Cardinality(breaks) - 1) |->
            SubSeq(s, nth(k) + 1, nth(k + 1) - 1)]

----------------------------------------------------------------------------
(* The git client *)

OutChars == {" ", "\n", "M"}

RECURSIVE StringsUpTo(_)
StringsUpTo(n) ==
    IF n = 0 THEN {""}
    ELSE LET shorter == StringsUpTo(n - 1)
         IN  shorter \cup {s \o c : s \in shorter, c \in OutChars}

Stdouts == StringsUpTo(MaxOut)

\* rev-parse, log -1 --pretty=format:%h %s and remote get-url print one line;
\* status --porcelain prints one line per changed path.
OneLine(s) == \A i \in 1..(Len(s) - 1) : SubSeq(s, i, i) # "\n"

StdoutsOf(query) ==
    IF query = "status" THEN Stdouts ELSE {s \in Stdouts : OneLine(s)}

\* What subprocess.run can do: fail to spawn the client (OSError, raised to
\* the caller), or return a CompletedProcess with an exit status and stdout.
SubprocessResults(query) ==
    {[kind |-> "oserror", returncode |-> -1, stdout |-> ""]}
    \cup {[kind |-> "exited", returncode |-> rc, stdout |-> ""] : rc \in {1, 128}}
    \cup {[kind |-> "exited", returncode |-> 0, stdout |-> s] : s \in StdoutsOf(query)}

\* subprocess.run(..., cwd=root): a cwd that is not a directory cannot be
\* entered, so the spawn itself fails.
SpawnResults(query) ==
    IF rootKind = "file"
    THEN {r \in SubprocessResults(query) : r.kind = "oserror"}
    ELSE SubprocessResults(query)

\* run_git without the exit status check
run_git_IgnoringStatus(result) == Some(Strip(result.stdout))

\* run_git: stripped stdout when successful, None on a non-zero exit
run_git(result) ==
    IF result.returncode # 0 THEN None ELSE Some(Strip(result.stdout))

\* `x or default` with the default forgotten
OrElse_NoDefault(opt, default) ==
    IF opt = None THEN "" ELSE opt.val

\* Python's `x or default` on an Optional[str]
OrElse(opt, default) ==
    IF opt = None \/ opt.val = "" THEN default ELSE opt.val

----------------------------------------------------------------------------
(* The filesystem below root *)

GitDir == ".git"

\* A node is a direct or indirect child of root; parent 0 is root itself.
NodeRecs(parents, names, sizes) ==
    [parent : parents, name : names, kind : {"dir"}, size : {0}]
    \cup [parent : parents, name : names, kind : {"file"}, size : sizes]

\* the nodes that can be added to tree t: below root (deep = FALSE) or below
\* any directory (deep = TRUE), with a name no sibling has
Extensions(t, deep, names, sizes) ==
    {r \in NodeRecs(IF deep THEN 0..Len(t) ELSE {0}, names, sizes) :
        /\ r.parent = 0 \/ t[r.parent].kind = "dir"
        /\ \A i \in 1..Len(t) : t[i].parent = r.parent => t[i].name # r.name}

\* the trees of at most n nodes
RECURSIVE TreesOf(_, _, _, _)
TreesOf(n, deep, names, sizes) ==
    IF n = 0 THEN {<<>>}
    ELSE LET smaller == TreesOf(n - 1, deep, names, sizes)
         IN  smaller \cup
             UNION {{Append(t, r) : r \in Extensions(t, deep, names, sizes)} :
                        t \in {s \in smaller : Len(s) = n - 1}}

Children(t, p) == {i \in 1..Len(t) : t[i].parent = p}

\* The nodes at or below node i
RECURSIVE Below(_, _)
Below(t, i) == {i} \cup UNION {Below(t, c) : c \in Children(t, i)}

\* The orders in which a directory listing (iterdir, scandir) may come back
Orderings(S) ==
    {f \in [1..Cardinality(S) -> S] :
        \A i, j \in 1..Cardinality(S) : i # j => f[i] # f[j]}

----------------------------------------------------------------------------
(* collect_file_overview *)

\* Characters in code point order, as Python compares str
CodePoints == " ()./0123456789ABDEGKMRTabcdegimorst~"

Ord(c) ==
    LET at == {i \in 1..Len(CodePoints) : SubSeq(CodePoints, i, i) = c}
    IN  IF at = {} THEN 0 ELSE CHOOSE i \in at : TRUE

\* a < b on str
RECURSIVE StrLess(_, _)
StrLess(a, b) ==
    IF b = "" THEN FALSE
    ELSE IF a = "" THEN TRUE
    ELSE LET x == Ord(SubSeq(a, 1, 1))
             y == Ord(SubSeq(b, 1, 1))
         IN  IF x # y THEN x < y
             ELSE StrLess(SubSeq(a, 2, Len(a)), SubSeq(b, 2, Len(b)))

\* Path.__lt__ on two children of the same directory
PathLess(t, i, j) == StrLess(t[i].name, t[j].name)

RECURSIVE InsertSorted(_, _, _)
InsertSorted(t, seq, i) ==
    IF seq = <<>> THEN <<i>>
    ELSE IF PathLess(t, i, Head(seq)) THEN <<i>> \o seq
    ELSE <<Head(seq)>> \o InsertSorted(t, Tail(seq), i)

\* sorted(root.iterdir())
RECURSIVE Sorted(_, _)
Sorted(t, listing) ==
    IF listing = <<>> THEN <<>>
    ELSE InsertSorted(t, Sorted(t, Tail(listing)), Head(listing))

\* round-half-even of num/den, as float formatting rounds an exact value
RoundHalfEven(num, den) ==
    LET q == num \div den
        r == num % den
    IN  IF 2 * r > den THEN q + 1
        ELSE IF 2 * r < den THEN q
        ELSE IF q % 2 = 0 THEN q ELSE q + 1

KB == 1024

\* f"{size / 1024:.1f}"
FormatKB(size) ==
    LET tenths == RoundHalfEven(size * 10, KB)
    IN  ToString(tenths \div 10) \o "." \o ToString(tenths % 10)

\* the rendering of one child
Entry(node) ==
    IF node.kind = "dir"
    THEN node.name \o "/"
    ELSE node.name \o " (" \o FormatKB(node.size) \o " KB)"

\* a listing that skips nothing
Skipped_Never(node) == FALSE

Skipped(node) == node.name = GitDir

\* the loop body over the sorted children
RECURSIVE Entries(_, _)
Entries(t, paths) ==
    IF paths = <<>> THEN <<>>
    ELSE IF Skipped(t[Head(paths)]) THEN Entries(t, Tail(paths))
    ELSE <<Entry(t[Head(paths)])>> \o Entries(t, Tail(paths))

collect_file_overview(t, listing) == Entries(t, Sorted(t, listing))

----------------------------------------------------------------------------
(* collect_stats *)

\* dirnames and filenames of one os.walk step
DirNames(t, current) == {i \in Children(t, current) : t[i].kind = "dir"}
FileNames(t, current) == {i \in Children(t, current) : t[i].kind # "dir"}

\* a walk that prunes nothing
Pruned_Nothing(t, dirnames) == dirnames

\* dirnames[:] = [d for d in dirnames if d != ".git"]
Pruned(t, dirnames) == {d \in dirnames : t[d].name # GitDir}

----------------------------------------------------------------------------
(* format_summary *)

\* the fallback line with its explanation dropped
Fallback_Short == "Git: n/a"

Fallback == "Git: n/a (not a repository)"

GitLines(info) ==
    IF info # None
    THEN << "Branch: " \o info.val.branch,
            "Latest commit: " \o info.val.latest_commit,
            "Remote: " \o OrElse(info.val.remote, "n/a"),
            "Working tree: " \o (IF info.val.dirty THEN "dirty" ELSE "clean") >>
    ELSE << Fallback >>

ContentsLine(st) ==
    "Contents: " \o ToString(st.files) \o " files in "
        \o ToString(st.dirs) \o " directories"

Bullets(listing) == [i \in 1..Len(listing) |-> "  - " \o listing[i]]

\* the bullets emitted ahead of the blank line and the counts line
SummaryLines_BulletsFirst(r, info, listing, st) ==
    <<"Path: " \o r>> \o GitLines(info)
        \o Bullets(listing) \o <<"", ContentsLine(st)>>

SummaryLines(r, info, listing, st) ==
    <<"Path: " \o r>> \o GitLines(info)
        \o <<"", ContentsLine(st)>> \o Bullets(listing)

----------------------------------------------------------------------------
(* main: the argument and its resolution *)

Home == "/h"
Cwd == "/w"
Args == {".", "~/p", "/srv/p"}

\* Path.expanduser()
ExpandUser(a) ==
    IF StartsWith(a, "~") THEN Home \o SubSeq(a, 2, Len(a)) ELSE a

\* Path.resolve(): absolute, relative ones taken from the working directory
Resolve(a) ==
    IF StartsWith(a, "/") THEN a
    ELSE IF a = "." THEN Cwd
    ELSE Cwd \o "/" \o a

\* parser.error(f"Path does not exist: {root}")
UsageError(r) == "error: Path does not exist: " \o r

\* the directories the full run is exercised on
File(p, n, sz) == [parent |-> p, name |-> n, kind |-> "file", size |-> sz]
Dir(p, n) == [parent |-> p, name |-> n, kind |-> "dir", size |-> 0]

MainTrees ==
    { <<>>,
      <<File(0, "README.md", 10)>>,
      <<Dir(0, "src"), Dir(0, GitDir), File(2, "M", 256), File(0, "README.md", 10),
        File(1, "a", 1536)>>,
      <<File(0, "b", 768), Dir(0, "a"), Dir(2, GitDir), File(0, "B", 0)>> }

----------------------------------------------------------------------------
(* State machine *)

NoStats == [files |-> 0, dirs |-> 0]

InitLocals ==
    /\ root = ""
    /\ gitCalls = <<>>
    /\ branch = ""
    /\ latest_commit = ""
    /\ status_output = ""
    /\ git_info = None
    /\ file_listing = <<>>
    /\ stack = <<>>
    /\ visited = {}
    /\ files = 0
    /\ dirs = 0
    /\ stats = NoStats
    /\ lines = <<>>
    /\ stdout = ""
    /\ stderr = ""
    /\ raised = "none"
    /\ exit = -1

Init ==
    /\ argv \in Args
    /\ rootKind \in {"missing", "file", "dir", "unreadable"}
    /\ tree \in (IF rootKind = "dir" THEN MainTrees ELSE {<<>>})
    /\ pc = "main"
    /\ InitLocals

\* an exception nobody catches: traceback, exit status 1
Raise(fn) ==
    /\ raised' = fn
    /\ exit' = 1
    /\ stderr' = "Traceback"
    /\ pc' = "done"
    /\ UNCHANGED <<lines, stdout>>

Goto(p) ==
    /\ pc' = p
    /\ UNCHANGED <<raised, outVars>>

\* an existence check that lets every path through
Exists_Always(kind) == TRUE

\* root.exists()
Exists(kind) == kind # "missing"

\* main(), up to the call of format_summary
Main ==
    /\ pc = "main"
    /\ root' = Resolve(ExpandUser(argv))
    /\ IF ~Exists(rootKind)
       THEN /\ stderr' = UsageError(root')
            /\ exit' = 2
            /\ pc' = "done"
            /\ UNCHANGED <<lines, stdout, raised>>
       ELSE Goto("branch")
    /\ UNCHANGED <<argv, rootKind, tree, gitVars, file_listing, walkVars>>

HasNonSpace(s) == \E i \in 1..Len(s) : ~IsSpace(SubSeq(s, i, i))

\* the record of one run_git call: what subprocess.run did, what run_git returned
Call(query, res) ==
    [query |-> query,
     outcome |-> IF res.kind = "oserror" THEN "oserror"
                 ELSE IF res.returncode # 0 THEN "nonzero" ELSE "ok",
     nonblank |-> res.kind = "exited" /\ HasNonSpace(res.stdout),
     ret |-> IF res.kind = "oserror" THEN None ELSE run_git(res)]

\* branch = run_git(["rev-parse", "--abbrev-ref", "HEAD"], root)
QueryBranch ==
    /\ pc = "branch"
    /\ \E res \in SpawnResults("rev-parse") :
        /\ gitCalls' = Append(gitCalls, Call("rev-parse", res))
        /\ IF res.kind = "oserror"
           THEN Raise("run_git") /\ UNCHANGED <<branch, git_info>>
           ELSE LET ret == run_git(res)
                IN  IF ret = None
                    THEN git_info' = None /\ Goto("overview") /\ UNCHANGED branch
                    ELSE branch' = ret.val /\ Goto("log") /\ UNCHANGED git_info
    /\ UNCHANGED <<envVars, latest_commit, status_output, file_listing, walkVars>>

\* latest_commit = run_git(["log", ...], root) or "n/a"
QueryLog ==
    /\ pc = "log"
    /\ \E res \in SpawnResults("log") :
        /\ gitCalls' = Append(gitCalls, Call("log", res))
        /\ IF res.kind = "oserror"
           THEN Raise("run_git") /\ UNCHANGED latest_commit
           ELSE latest_commit' = OrElse(run_git(res), "n/a") /\ Goto("status")
    /\ UNCHANGED <<envVars, branch, status_output, git_info, file_listing, walkVars>>

\* status_output = run_git(["status", "--porcelain"], root) or ""
QueryStatus ==
    /\ pc = "status"
    /\ \E res \in SpawnResults("status") :
        /\ gitCalls' = Append(gitCalls, Call("status", res))
        /\ IF res.kind = "oserror"
           THEN Raise("run_git") /\ UNCHANGED status_output
           ELSE status_output' = OrElse(run_git(res), "") /\ Goto("remote")
    /\ UNCHANGED <<envVars, branch, latest_commit, git_info, file_listing, walkVars>>

\* dirty taken from the status query having run at all
IsDirty_Always(out) == TRUE

\* dirty = bool(status_output.strip())
IsDirty(out) == Strip(out) # ""

GitInfo(b, c, d, r) ==
    [branch |-> b, latest_commit |-> c, dirty |-> d, remote |-> r]

\* remote = run_git(["remote", "get-url", "origin"], root); return GitInfo(...)
QueryRemote ==
    /\ pc = "remote"
    /\ \E res \in SpawnResults("remote") :
        /\ gitCalls' = Append(gitCalls, Call("remote", res))
        /\ IF res.kind = "oserror"
           THEN Raise("run_git") /\ UNCHANGED git_info
           ELSE /\ git_info' = Some(GitInfo(branch, latest_commit,
                                            IsDirty(status_output), run_git(res)))
                /\ Goto("overview")
    /\ UNCHANGED <<envVars, branch, latest_commit, status_output, file_listing, walkVars>>

\* file_listing = collect_file_overview(root)
CollectFileOverview ==
    /\ pc = "overview"
    /\ IF rootKind = "unreadable"
       THEN Raise("collect_file_overview") /\ UNCHANGED file_listing
       ELSE /\ \E listing \in Orderings(Children(tree, 0)) :
                 file_listing' = collect_file_overview(tree, listing)
            /\ Goto("stats")
    /\ UNCHANGED <<envVars, gitVars, walkVars>>

\* collect_stats: files = 0; dirs = 0; os.walk(root) starts at root
CollectStats ==
    /\ pc = "stats"
    /\ files' = 0
    /\ dirs' = 0
    /\ stack' = <<0>>
    /\ visited' = {}
    /\ Goto("walk")
    /\ UNCHANGED <<envVars, gitVars, file_listing, stats>>

\* one iteration of the os.walk loop
WalkStep ==
    /\ pc = "walk"
    /\ stack # <<>>
    /\ LET current == Head(stack)
           dirnames == Pruned(tree, DirNames(tree, current))
       IN  /\ visited' = visited \cup {current}
           /\ dirs' = dirs + Cardinality(dirnames)
           /\ files' = files + Cardinality(FileNames(tree, current))
           /\ \E order \in Orderings(dirnames) : stack' = order \o Tail(stack)
    /\ Goto("walk")
    /\ UNCHANGED <<envVars, gitVars, file_listing, stats>>

\* return {"files": files, "dirs": dirs}
WalkDone ==
    /\ pc = "walk"
    /\ stack = <<>>
    /\ stats' = [files |-> files, dirs |-> dirs]
    /\ Goto("format")
    /\ UNCHANGED <<envVars, gitVars, file_listing, stack, visited, files, dirs>>

\* format_summary: lines = [...]; return "\n".join(lines)
FormatSummary ==
    /\ pc = "format"
    /\ lines' = SummaryLines(root, git_info, file_listing, stats)
    /\ pc' = "print"
    /\ UNCHANGED <<envVars, gitVars, file_listing, walkVars, stdout, stderr, raised, exit>>

\* print(format_summary(root)); main returns
PrintSummary ==
    /\ pc = "print"
    /\ stdout' = Join(lines) \o "\n"
    /\ exit' = 0
    /\ pc' = "done"
    /\ UNCHANGED <<envVars, gitVars, file_listing, walkVars, lines, stderr, raised>>

Next ==
    \/ Main
    \/ QueryBranch
    \/ QueryLog
    \/ QueryStatus
    \/ QueryRemote
    \/ CollectFileOverview
    \/ CollectStats
    \/ WalkStep
    \/ WalkDone
    \/ FormatSummary
    \/ PrintSummary

Spec == Init /\ [][Next]_vars

----------------------------------------------------------------------------
(* collect_stats on its own, over every tree of up to MaxNodes nodes *)

StatsNames == {GitDir, "a", "b"}

InitStats ==
    /\ argv = "."
    /\ rootKind = "dir"
    /\ tree \in TreesOf(MaxNodes, TRUE, StatsNames, {0})
    /\ pc = "stats"
    /\ InitLocals

NextStats ==
    \/ CollectStats
    \/ WalkStep
    \/ WalkDone

SpecStats == InitStats /\ [][NextStats]_vars

\* a .git directory anywhere below root
GitDirs(t) == {g \in 1..Len(t) : t[g].kind = "dir" /\ t[g].name = GitDir}

\* the nodes that are a .git directory or lie beneath one
InsideGit(t) == UNION {Below(t, g) : g \in GitDirs(t)}

OutsideGit(t, kind) ==
    {i \in 1..Len(t) : t[i].kind = kind /\ i \notin InsideGit(t)}

\* C6: for every tree and every depth of a .git directory, collect_stats
\* returns exactly the number of files and of directories that are neither a
\* .git directory nor beneath one, and the walk never visits a node inside one.
C6_StatsExcludeGit ==
    /\ visited \cap InsideGit(tree) = {}
    /\ pc = "format" =>
          /\ stats.files = Cardinality(OutsideGit(tree, "file"))
          /\ stats.dirs = Cardinality(OutsideGit(tree, "dir"))

\* a populated .git directory below the first level has been walked past
C6_Witness ==
    /\ pc = "format"
    /\ \E g \in GitDirs(tree) :
          /\ tree[g].parent # 0
          /\ Children(tree, g) # {}
    /\ stats.dirs > 0

----------------------------------------------------------------------------
(* collect_file_overview on its own *)

OverviewNames == {GitDir, "B", "a", "ab"}
OverviewSizes == {10, 1280}

\* up to MaxEntries direct children, and possibly one file below one of them
OverviewTrees ==
    LET flat == TreesOf(MaxEntries, FALSE, OverviewNames, OverviewSizes)
    IN  flat \cup
        {Append(t, [parent |-> d, name |-> "a", kind |-> "file", size |-> 10]) :
            <<t, d>> \in {<<u, e>> \in flat \X (1..MaxEntries) :
                              e <= Len(u) /\ u[e].kind = "dir"}}

InitOverview ==
    /\ argv = "."
    /\ rootKind \in {"dir", "unreadable"}
    /\ tree \in (IF rootKind = "dir" THEN OverviewTrees ELSE {<<>>})
    /\ pc = "overview"
    /\ InitLocals

NextOverview == CollectFileOverview

SpecOverview == InitOverview /\ [][NextOverview]_vars

\* the names of the model in the order Python sorts them, and the text Python
\* prints for the sizes of the model
NamesInOrder == <<GitDir, "B", "a", "ab">>
SizeText(size) ==
    CASE size = 10 -> "0.0"
      [] size = 1280 -> "1.2"
      [] OTHER -> "?"

ChildNamed(t, n) == {c \in Children(t, 0) : t[c].name = n}

ExpectedEntry(node) ==
    IF node.kind = "dir" THEN node.name \o "/"
    ELSE node.name \o " (" \o SizeText(node.size) \o " KB)"

RECURSIVE ExpectedFrom(_, _)
ExpectedFrom(t, k) ==
    IF k > Len(NamesInOrder) THEN <<>>
    ELSE LET n == NamesInOrder[k]
         IN  (IF n # GitDir /\ ChildNamed(t, n) # {}
              THEN <<ExpectedEntry(t[CHOOSE c \in ChildNamed(t, n) : TRUE])>>
              ELSE <<>>) \o ExpectedFrom(t, k + 1)

\* C7: collect_file_overview returns one entry per direct child not named
\* .git, in lexicographic order of the names, nothing from deeper levels,
\* directories as "name/" and other children as "name (X.Y KB)".
C7_OverviewSortedTopLevel ==
    pc = "stats" => file_listing = ExpectedFrom(tree, 1)

\* an unsorted listing with a .git child, a directory, a file and deeper nodes
C7_Witness ==
    /\ pc = "stats"
    /\ Len(file_listing) >= 2
    /\ ChildNamed(tree, GitDir) # {}
    /\ \E i, j \in Children(tree, 0) :
          /\ tree[i].name = "a" /\ tree[i].kind = "dir" /\ Children(tree, i) # {}
          /\ tree[j].name = "B" /\ tree[j].kind = "file" /\ tree[j].size = 1280

----------------------------------------------------------------------------
(* Claims about the whole run *)

Contains(s, sub) ==
    \E i \in 1..(Len(s) - Len(sub) + 1) : SubSeq(s, i, i + Len(sub) - 1) = sub

\* the absolute path each argument of the model stands for
AbsoluteOf(a) ==
    CASE a = "." -> "/w"
      [] a = "~/p" -> "/h/p"
      [] a = "/srv/p" -> "/srv/p"

\* the lines of the printed text, without print's final newline
Printed == SplitLines(SubSeq(stdout, 1, Len(stdout) - 1))

Finished == pc = "done"
Succeeded == pc = "done" /\ exit = 0

\* C1: with a path that does not exist the run ends with a non-zero status
\* and a usage error naming the resolved absolute path, and no git query and
\* no collector ever runs.
C1_MissingPathUsageError ==
    rootKind = "missing" =>
        /\ pc \in {"main", "done"}
        /\ gitCalls = <<>>
        /\ file_listing = <<>>
        /\ stack = <<>> /\ visited = {} /\ stats = NoStats
        /\ raised = "none"
        /\ stdout = ""
        /\ Finished =>
              /\ exit > 0
              /\ StartsWith(stderr, "error: ")
              /\ Contains(stderr, AbsoluteOf(argv))

C1_Witness ==
    /\ rootKind = "missing"
    /\ argv = "~/p"
    /\ Finished
    /\ exit = 2

FailedCalls ==
    {i \in 1..Len(gitCalls) : gitCalls[i].outcome \in {"oserror", "nonzero"}}

\* C2: every failure of a git query, a client that cannot be spawned
\* included, is absorbed: nothing is raised out of run_git and the run still
\* prints a summary.
C2_GitFailuresNeverRaise ==
    (rootKind = "dir" /\ FailedCalls # {}) =>
        /\ raised # "run_git"
        /\ Finished => exit = 0 /\ stdout # ""

BranchFailed == gitCalls # <<>> /\ gitCalls[1].outcome = "nonzero"

GitLabels == {"Branch: ", "Latest commit: ", "Remote: ", "Working tree: "}

\* C3: when the branch query exits non-zero the summary holds the line
\* "Git: n/a (not a repository)" and no Branch, Latest commit, Remote or
\* Working tree line; and the fallback line is printed only in that case.
C3_FallbackIffBranchFailed ==
    Succeeded =>
        LET L == Printed
            hasFallback == \E i \in 1..Len(L) : L[i] = "Git: n/a (not a repository)"
        IN  /\ BranchFailed => hasFallback
            /\ BranchFailed =>
                  \A i \in 1..Len(L) : \A lab \in GitLabels : ~StartsWith(L[i], lab)
            /\ hasFallback => BranchFailed

C3_Witness ==
    /\ Succeeded
    /\ BranchFailed
    /\ Len(file_listing) > 1

\* C4: once the branch query succeeded, a failing log, status or remote query
\* gives the placeholder of its own field only ("n/a", clean, no remote) and
\* every other field carries what its own query returned; with no origin
\* remote the summary reads "Remote: n/a".
C4_PerFieldFallback ==
    git_info # None =>
        LET g == git_info.val
            log == gitCalls[2]
            status == gitCalls[3]
            remote == gitCalls[4]
        IN  /\ Len(gitCalls) = 4
            /\ g.branch = gitCalls[1].ret.val
            /\ log.outcome = "nonzero" => g.latest_commit = "n/a"
            /\ (log.outcome = "ok" /\ log.nonblank) => g.latest_commit = log.ret.val
            /\ status.outcome = "nonzero" => g.dirty = FALSE
            /\ status.outcome = "ok" => g.dirty = status.nonblank
            /\ remote.outcome = "nonzero" => g.remote = None
            /\ remote.outcome = "ok" => g.remote = remote.ret
            /\ (Succeeded /\ remote.outcome = "nonzero") => Printed[4] = "Remote: n/a"

C4_Witness ==
    /\ Succeeded
    /\ git_info # None
    /\ gitCalls[2].outcome = "nonzero"
    /\ gitCalls[3].outcome = "ok" /\ gitCalls[3].nonblank
    /\ gitCalls[4].outcome = "nonzero"
    /\ git_info.val.branch = "M"

StatusReturnedText ==
    /\ Len(gitCalls) >= 3
    /\ gitCalls[3].outcome = "ok"
    /\ gitCalls[3].nonblank

\* C5: inside a repository the working-tree line reads "Working tree: dirty"
\* exactly when the status query returned some non-whitespace output and
\* "Working tree: clean" otherwise.
C5_DirtyIffStatusText ==
    (Succeeded /\ git_info # None) =>
        Printed[5] = (IF StatusReturnedText
                      THEN "Working tree: dirty"
                      ELSE "Working tree: clean")

C5_Witness ==
    /\ Succeeded
    /\ git_info # None
    /\ StatusReturnedText
    /\ Printed[5] = "Working tree: dirty"

\* C8: the printed text is the path header, then the four git lines in the
\* order Branch, Latest commit, Remote, Working tree or the single fallback
\* line, then a blank line, then the counts line, then one "  - " bullet per
\* overview entry in the overview's order, and nothing else.
C8_LineOrder ==
    Succeeded =>
        LET L == Printed
            k == IF git_info # None THEN 5 ELSE 2
        IN  /\ Len(L) = k + 2 + Len(file_listing)
            /\ L[1] = "Path: " \o AbsoluteOf(argv)
            /\ IF git_info # None
               THEN /\ StartsWith(L[2], "Branch: ")
                    /\ StartsWith(L[3], "Latest commit: ")
                    /\ StartsWith(L[4], "Remote: ")
                    /\ StartsWith(L[5], "Working tree: ")
               ELSE L[2] = "Git: n/a (not a repository)"
            /\ L[k + 1] = ""
            /\ L[k + 2] = "Contents: " \o ToString(stats.files) \o " files in "
                             \o ToString(stats.dirs) \o " directories"
            /\ \A i \in 1..Len(file_listing) :
                  L[k + 2 + i] = "  - " \o file_listing[i]

C8_Witness ==
    /\ Succeeded
    /\ git_info # None
    /\ Len(file_listing) = 3
    /\ stats.files = 2
    /\ stats.dirs = 1

\* C9 as stated: whenever the resolved path exists the run prints the
\* summary and ends with status zero.
C9_ExistingPathAlwaysSucceeds ==
    (rootKind # "missing" /\ Finished) => exit = 0 /\ stdout # ""

SpawnFailed == \E i \in 1..Len(gitCalls) : gitCalls[i].outcome = "oserror"

\* C9 amended: whenever the resolved path exists the run prints the
\* formatted summary and ends with status zero unless a collector raises;
\* when a git query cannot be spawned or the directory cannot be listed the
\* exception propagates, nothing is printed and the status is non-zero.
C9_SucceedsUnlessCollectorRaises ==
    (rootKind # "missing" /\ Finished) =>
        /\ raised = "none" <=> (rootKind = "dir" /\ ~SpawnFailed)
        /\ raised = "none" =>
              /\ exit = 0
              /\ lines # <<>>
              /\ Printed = lines
              /\ EndsWith(stdout, "\n")
        /\ raised # "none" => exit > 0 /\ stdout = ""

C9_Witness ==
    /\ rootKind = "dir"
    /\ Finished
    /\ raised = "none"
    /\ exit = 0
    /\ Len(lines) > 6

QueryOrder == <<"rev-parse", "log", "status", "remote">>

\* C10: git is spawned at most four times in a run, the queries in the order
\* branch, latest commit, status, remote with none repeated, and after a
\* failed branch query no further query is spawned.
C10_QueriesOnceInOrder ==
    /\ Len(gitCalls) <= Len(QueryOrder)
    /\ \A i \in 1..Len(gitCalls) : gitCalls[i].query = QueryOrder[i]
    /\ (gitCalls # <<>> /\ gitCalls[1].outcome # "ok") => Len(gitCalls) = 1

C10_Witness ==
    /\ Finished
    /\ Len(gitCalls) = 4
    /\ \A i \in 2..4 : gitCalls[i].outcome = "nonzero"

====
